---- MODULE Spec2Model ----
(***************************************************************************)
(* State-machine model of the Qt POS integration demo (Windows build,      *)
(* Q_OS_WIN defined): the POSCommunication singleton, the MainWindow that  *)
(* drives it, the background connect worker, the vendor library's callback *)
(* thread and the main thread's queued-event loop.                         *)
(*                                                                         *)
(* Three threads take steps:                                               *)
(*   main    every public method of POSCommunication, every MainWindow     *)
(*           slot and every queued event; one handler runs at a time       *)
(*   worker  the lambda started by connect(), one step per statement that  *)
(*           touches shared state or the native library (a log emit is     *)
(*           taken together with the statement that follows it)            *)
(*   vendor  the native library's thread that calls the two static         *)
(*           callback handlers; the device-state handler is split at its   *)
(*           read of m_isConnecting                                        *)
(*                                                                         *)
(* Spec drives the class through its whole public interface from the main  *)
(* thread; SpecApp is the demo application, where only MainWindow calls    *)
(* the class and the vendor thread also delivers serial input.             *)
(***************************************************************************)
EXTENDS Integers, Sequences, FiniteSets, TLC

\* ---- bounds -------------------------------------------------------------
MaxAttempts == 2
MaxSerial == 2
MaxDevice == 1

\* ---- value domains ------------------------------------------------------
NullHandle == 0
\* POSCommunication* POSCommunication::m_instance = nullptr (and the console
\* wrapper's POSCommunication* instance = nullptr).
NullInstance == 0
\* Objects constructed in one run; company names a caller passes.
MaxObjects == 3
CompanyNames == {"YourCompanyName", "CompanyName"}
\* Successive serial callbacks carry increasing type codes, which tells their
\* events apart.
TypeCodes == 1..MaxSerial
\* BSTR payloads as sequences of UTF-16 code units; the vendor sends JSON
\* text, which holds no NUL code unit.
Values == {<<7>>, <<8>>}
DeviceIds == {<<9>>}
ResultCodes == {0, 1}

VARIABLES
    appPhase,         \* "init" before MainWindow is constructed, then "running",
                      \* and "exited" once main has returned
    libsOk,           \* environment: all four required DLLs can be loaded
    symsOk,           \* environment: all nine symbols resolve in the main DLL
    fnValid,          \* the nine function pointers hold valid addresses
    m_instance,       \* POSCommunication::m_instance: index in objects, or NullInstance
    objects,          \* every POSCommunication object constructed so far, in order
    instance,         \* console wrapper: static POSCommunication* instance
    m_connection,     \* session handle, NullHandle or a handle id
    m_isConnected,
    m_isConnecting,
    receivers,        \* MainWindow's slots are connected to the four signals
    workers,          \* connect workers: [pc, ret] per started QThread
    attempts,         \* number of QThreads started so far
    queue,            \* main thread's posted-event queue (FIFO)
    vendor,           \* vendor thread: [pc, b, n, v] of the callback in progress
    devices,          \* number of device-state callbacks invoked so far
    handles,          \* native library: per created handle, its registrations
    nextHandle,       \* native library: last handle id handed out
    window,           \* MainWindow: m_posComm set, button state, title
    last,             \* the latest step that called a method of the class,
                      \* called the native library or wrote the shared state
    lost,             \* signals emitted while no receiver was connected
    serialInvoked,    \* history: arguments of the serial callbacks, in order
    serialDelivered,  \* history: serialInReceived and "Serial In" logMessage
                      \* signals as emitted, in order, with the emitting thread
    ub,               \* a native call was made on a handle that is not a live session
    crashed           \* the process died in a call through an invalid function pointer

vars == <<appPhase, libsOk, symsOk, fnValid, m_instance, objects, instance, m_connection,
          m_isConnected, m_isConnecting, receivers, workers, attempts, queue,
          vendor, devices, handles, nextHandle, window, last, lost,
          serialInvoked, serialDelivered, ub, crashed>>

appVars == <<appPhase, libsOk, symsOk, fnValid, m_instance, objects, instance, crashed>>
uiVars == <<window, queue, lost, receivers>>
histVars == <<serialInvoked, serialDelivered>>
libVars == <<handles, nextHandle>>
connectVars == <<m_isConnecting, workers, attempts>>

\* ---- Qt plumbing --------------------------------------------------------
\* A posted event or an emitted signal: k names the signal or method, to
\* names the receiving object ("pos": invoke k on the POSCommunication
\* object, "window": call MainWindow's slot for signal k).
Ev(k, to, b, n, s, v) == [k |-> k, to |-> to, b |-> b, n |-> n, s |-> s, v |-> v]
LogSig(msg) == Ev("logMessage", "pos", FALSE, 0, msg, <<>>)
StatusSig(b) == Ev("connectionStatusChanged", "pos", b, 0, "", <<>>)

\* Qt::DirectConnection: the receiver runs on the caller's thread.
DirectConnection(th) == "direct"

\* Qt::AutoConnection: direct when the caller runs on the receiver's thread
\* (every QObject here lives on the main thread), queued otherwise.
AutoConnection(th) == IF th = "main" THEN "direct" ELSE "queued"

\* QString::fromWCharArray(p) with size -1: the code units before the first
\* NUL.
RECURSIVE fromWCharArray(_)
fromWCharArray(w) ==
    IF w = <<>> \/ Head(w) = 0 THEN <<>>
    ELSE <<Head(w)>> \o fromWCharArray(Tail(w))

\* ---- MainWindow ---------------------------------------------------------
\* m_textLog->append(line): the panel is write-only output; st.line is the
\* last line appended so far in the running handler.
log(st, msg) == [st EXCEPT !.line = msg]

\* updateButtons() without its test of isConnecting().
updateButtonsOnConnected(w, isConn, isConnecting) ==
    [w EXCEPT !.enabled = w.m_posComm /\ isConn,
              !.title = IF ~w.m_posComm THEN @
                        ELSE IF isConn THEN "Connected" ELSE "Disconnected"]

\* MainWindow::updateButtons() with the values isConnected() and
\* isConnecting() return when it runs.
updateButtons(w, isConn, isConnecting) ==
    [w EXCEPT !.enabled = w.m_posComm /\ isConn /\ ~isConnecting,
              !.title = IF ~w.m_posComm THEN @
                        ELSE IF isConn THEN "Connected"
                        ELSE IF isConnecting THEN "Connecting..."
                        ELSE "Disconnected"]

\* The slot MainWindow connected to signal e.k, run with the flags as the
\* slot reads them.
Slot(st, e, isConn, isConnecting) ==
    CASE e.k = "logMessage" -> log(st, e.s)
      [] e.k = "connectionStatusChanged" ->
            [st EXCEPT !.w = updateButtons(@, isConn, isConnecting)]
      [] e.k = "serialInReceived" -> log(st, "Serial In")
      [] e.k = "deviceStateChanged" ->
            [log(st, "Device State") EXCEPT !.w = updateButtons(@, isConn, isConnecting)]

\* emit of signal e by thread th. st = [w, q, lost, recv, line, csc] is the
\* window, the event queue, the lost signals, whether MainWindow's slots are
\* connected, the last line logged and the connectionStatusChanged arguments
\* emitted, so far in the running handler; the result is st after the emit.
Emit(st, e, th, isConn, isConnecting) ==
    LET s0 == IF e.k = "connectionStatusChanged"
              THEN [st EXCEPT !.csc = Append(@, e.b)] ELSE st
    IN IF ~s0.recv THEN [s0 EXCEPT !.lost = @ \cup {e}]
       ELSE IF AutoConnection(th) = "direct"
            THEN Slot(s0, e, isConn, isConnecting)
            ELSE [s0 EXCEPT !.q = Append(s0.q, [e EXCEPT !.to = "window"])]

RECURSIVE EmitAll(_, _, _, _, _)
EmitAll(st, es, th, isConn, isConnecting) ==
    IF es = <<>> THEN st
    ELSE EmitAll(Emit(st, Head(es), th, isConn, isConnecting), Tail(es),
                 th, isConn, isConnecting)

Here == [w |-> window, q |-> queue, lost |-> lost, recv |-> receivers,
         line |-> "", csc |-> <<>>]
Put(st) == /\ window' = st.w
           /\ queue' = st.q
           /\ lost' = st.lost
           /\ receivers' = st.recv

\* ---- native library -----------------------------------------------------
\* Per handle id: created (a session the library really made), the two
\* set-callback calls and the deleteCommunication call made on it.
NoHandle == [created |-> FALSE, serialCb |-> FALSE, deviceCb |-> FALSE, deleted |-> FALSE]
Live(h) == h # NullHandle /\ handles[h].created /\ ~handles[h].deleted

\* ---- the latest step ----------------------------------------------------
\* th: the thread, op: the method or handler, exc: the runtime_error thrown
\* to the caller, val/str: the value returned, fn/h: the native entry point
\* called and the handle passed (for createCommunication: returned), live:
\* h was a live session, wrote: the shared members assigned, line: the last
\* line the step appended to MainWindow's log panel ("" if none), csc: the
\* arguments of the connectionStatusChanged signals the step emitted.
Step(th, op) == [th |-> th, op |-> op, exc |-> "none", val |-> 0, str |-> <<>>,
                 fn |-> "none", h |-> NullHandle, live |-> FALSE, wrote |-> {},
                 line |-> "", csc |-> <<>>, arg |-> ""]
Logged(l, st) == [l EXCEPT !.line = st.line, !.csc = st.csc]

\* l after native entry point fn is called on handle h; the call is undefined
\* behaviour when the pointer is invalid or h is not a live session.
Native(l, fn, h) == [l EXCEPT !.fn = fn, !.h = h,
                              !.live = (fn = "createCommunication" \/ Live(h))]
NativeUB(fn, h) == ~fnValid \/ (fn # "createCommunication" /\ ~Live(h))

\* ---- initial state ------------------------------------------------------
NoWorker == [pc |-> "unborn", ret |-> NullHandle]
VendorIdle == [pc |-> "idle", b |-> FALSE, n |-> 0, v |-> <<>>]

Init ==
    /\ appPhase = "init"
    /\ libsOk \in BOOLEAN
    /\ symsOk \in IF libsOk THEN BOOLEAN ELSE {FALSE}
    /\ fnValid = FALSE
    /\ m_instance = NullInstance
    /\ objects = <<>>
    /\ instance = NullInstance
    /\ m_connection = NullHandle
    /\ m_isConnected = FALSE
    /\ m_isConnecting = FALSE
    /\ receivers = FALSE
    /\ workers = [i \in 1..MaxAttempts |-> NoWorker]
    /\ attempts = 0
    /\ queue = <<>>
    /\ vendor = VendorIdle
    /\ devices = 0
    /\ handles = [h \in 1..MaxAttempts |-> NoHandle]
    /\ nextHandle = 0
    /\ window = [m_posComm |-> FALSE, enabled |-> FALSE,
                 title |-> "POS Communication Demo"]
    /\ last = Step("main", "none")
    /\ lost = {}
    /\ serialInvoked = <<>>
    /\ serialDelivered = <<>>
    /\ ub = FALSE
    /\ crashed = FALSE

\* ---- POSCommunication: connection management ----------------------------
\* QThread::create + start: a new worker at the first statement of the lambda.
StartWorker ==
    /\ attempts < MaxAttempts
    /\ attempts' = attempts + 1
    /\ workers' = [workers EXCEPT ![attempts + 1] = [pc |-> "create", ret |-> NullHandle]]

\* connect() without its test of m_isConnecting.
ConnectableWhileConnecting(h, isConnecting) == h = NullHandle

\* The guards of connect(): a worker is started only with no session and no
\* attempt in progress.
Connectable(h, isConnecting) == h = NullHandle /\ ~isConnecting

\* POSCommunication::connect() run by thread th in step l, with st the
\* window, queue and lost signals left by the caller's earlier statements.
\* A first test of connect() that also wants a device reported connected.
AlreadyConnectedToDevice(h, isConn) == h # NullHandle /\ isConn

\* if (m_connection != nullptr): the first test of connect().
AlreadyConnected(h, isConn) == h # NullHandle

connect(st, l) ==
    IF AlreadyConnected(m_connection, m_isConnected) THEN
        LET s1 == Emit(st, LogSig("Already connected"), l.th, m_isConnected, m_isConnecting)
        IN /\ Put(s1)
           /\ last' = Logged(l, s1)
           /\ UNCHANGED connectVars
    ELSE IF ~Connectable(m_connection, m_isConnecting) THEN
        LET s1 == Emit(st, LogSig("Connection attempt already in progress..."), l.th,
                       m_isConnected, m_isConnecting)
        IN /\ Put(s1)
           /\ last' = Logged(l, s1)
           /\ UNCHANGED connectVars
    ELSE
        LET s1 == EmitAll(st, <<LogSig("Connecting..."), StatusSig(FALSE)>>, l.th,
                          m_isConnected, TRUE)
        IN /\ m_isConnecting' = TRUE
           /\ last' = Logged([l EXCEPT !.wrote = @ \cup {"m_isConnecting"}], s1)
           /\ Put(s1)
           /\ StartWorker

\* loadLibraries() and initializeFunctions() as run by the constructor: the
\* log lines they emit, given what the environment lets load and resolve.
ConstructorSignals ==
    IF ~libsOk
    THEN <<LogSig("Failed to load required DLL"), LogSig("Failed to load required libraries")>>
    ELSE <<LogSig("Successfully loaded DLLs"),
           IF symsOk THEN LogSig("Successfully initialized all DLL functions")
           ELSE LogSig("Failed to resolve one or more functions from DLL")>>

\* The constructor of POSCommunication returns normally whatever loaded.
ConstructorThrows == FALSE

\* MainWindow::MainWindow(): setupUi, getInstance (which constructs the
\* singleton), the four signal connections and the initial connect(); the
\* catch branch logs the error and schedules the application to quit.
\* getInstance(companyName): if (!m_instance) m_instance = new
\* POSCommunication(companyName); return m_instance.  The value is the
\* pointer returned and the objects that exist after the call.
NoInstanceAlways(p) == TRUE
NoInstance(p) == p = NullInstance

NewObject(name) == [name |-> name, destroyed |-> FALSE]

getInstance(name) ==
    IF NoInstance(m_instance)
    THEN [ptr |-> Len(objects) + 1, objs |-> Append(objects, NewObject(name))]
    ELSE [ptr |-> m_instance, objs |-> objects]

MainWindowCtor ==
    /\ appPhase = "init"
    /\ ~crashed
    /\ m_instance' = getInstance("YourCompanyName").ptr
    /\ objects' = getInstance("YourCompanyName").objs
    /\ UNCHANGED instance
    /\ fnValid' = (libsOk /\ symsOk)
    /\ LET s0 == log([Here EXCEPT !.w = updateButtons(@, m_isConnected, m_isConnecting)],
                     "Initializing POS Communication...")
           s1 == EmitAll(s0, ConstructorSignals, "main", FALSE, FALSE)
           s2 == log([s1 EXCEPT !.recv = TRUE, !.w.m_posComm = TRUE],
                     "Attempting initial connection...")
           s3 == log(s1, "Error initializing")
       IN IF ConstructorThrows
          THEN /\ appPhase' = "failed"
               /\ Put(s3)
               /\ last' = Logged([Step("main", "MainWindow") EXCEPT !.exc = "init"], s3)
               /\ UNCHANGED connectVars
          ELSE /\ appPhase' = "running"
               /\ connect(s2, Step("main", "MainWindow"))
    /\ UNCHANGED <<libsOk, symsOk, m_connection, m_isConnected, vendor, devices,
                   ub, crashed>>
    /\ UNCHANGED libVars
    /\ UNCHANGED histVars

\* A completion lambda that leaves the attempt marked as in progress.
StillConnectingAfterCompletion == TRUE

\* m_isConnecting = false in both completion lambdas.
ConnectingAfterCompletion == FALSE

\* The completion lambdas of connect() (ok: the success one), run by thread th.
completion(ok, st, th) ==
    /\ m_isConnecting' = ConnectingAfterCompletion
    /\ LET s1 == Emit(st, LogSig(IF ok THEN "Connected successfully" ELSE "Error connecting"),
                      th, m_isConnected, m_isConnecting)
           s2 == Emit(s1, StatusSig(ok), th, m_isConnected, ConnectingAfterCompletion)
       IN /\ Put(s2)
          /\ last' = Logged([Step(th, IF ok THEN "completionOk" ELSE "completionErr")
                               EXCEPT !.wrote = {"m_isConnecting"}], s2)

\* QMetaObject::invokeMethod(this, functor) without a connection type, by
\* thread th, after the caller's emits left st.
InvokeCompletion(ok, st, th) ==
    IF AutoConnection(th) = "queued"
    THEN /\ Put([st EXCEPT !.q = Append(@, Ev(IF ok THEN "completionOk" ELSE "completionErr",
                                               "pos", ok, 0, "", <<>>))])
         /\ UNCHANGED <<m_isConnecting, last>>
    ELSE completion(ok, st, th)

\* The worker and vendor threads run while the process does: until it dies
\* in a faulting call or main returns.
ProcessAlive == ~crashed /\ appPhase # "exited"

\* ---- connect worker: the lambda of connect() and doConnect() ------------
\* Each emit logMessage(...) of doConnect() is taken together with the
\* statement that follows it.
Goto(w, pc) == workers' = [workers EXCEPT ![w].pc = pc]
WorkerEmit(msg) == Emit(Here, LogSig(msg), "worker", m_isConnected, m_isConnecting)

\* emit logMessage("Creating communication instance...");
\* m_connection = m_createCommunication(...): the library returns null or a
\* new session. Through an unresolved (null) or never assigned pointer the
\* call faults and the process dies.
WorkerCreate(w) ==
    /\ ProcessAlive
    /\ workers[w].pc = "create"
    /\ Put(WorkerEmit("Creating communication instance..."))
    /\ IF fnValid
       THEN /\ \E r \in {NullHandle, nextHandle + 1} :
                /\ m_connection' = r
                /\ workers' = [workers EXCEPT ![w] = [pc |-> "check", ret |-> r]]
                /\ nextHandle' = IF r = NullHandle THEN nextHandle ELSE r
                /\ handles' = IF r = NullHandle THEN handles
                              ELSE [handles EXCEPT ![r].created = TRUE]
                /\ last' = [Native(Step("worker", "doConnect"), "createCommunication", r)
                              EXCEPT !.wrote = {"m_connection"}]
            /\ UNCHANGED crashed
       ELSE /\ crashed' = TRUE
            /\ last' = Native(Step("worker", "doConnect"), "createCommunication", NullHandle)
            /\ UNCHANGED <<m_connection, workers, nextHandle, handles>>
    /\ UNCHANGED <<appPhase, libsOk, symsOk, fnValid, m_instance, objects, instance, m_isConnected,
                   m_isConnecting, attempts, vendor, devices, ub>>
    /\ UNCHANGED histVars

\* doConnect() without its test of the handle.
CreateNeverFailed(h) == FALSE

\* if (m_connection == nullptr) throw std::runtime_error(...)
CreateFailed(h) == h = NullHandle

\* The test of doConnect(): its read of m_connection races with the main
\* thread's disconnect(), so it yields the value just stored or the current
\* one.
WorkerCheck(w) ==
    /\ ProcessAlive
    /\ workers[w].pc = "check"
    /\ \E val \in {workers[w].ret, m_connection} :
        Goto(w, IF CreateFailed(val) THEN "postErr" ELSE "setSerial")
    /\ UNCHANGED <<m_connection, m_isConnected, m_isConnecting, attempts, vendor,
                   devices, last, ub>>
    /\ UNCHANGED appVars
    /\ UNCHANGED uiVars
    /\ UNCHANGED libVars
    /\ UNCHANGED histVars

WorkerSet(w, from, st, fn, field, to) ==
    /\ ProcessAlive
    /\ workers[w].pc = from
    /\ Goto(w, to)
    /\ last' = Native(Step("worker", "doConnect"), fn, m_connection)
    /\ ub' = (ub \/ NativeUB(fn, m_connection))
    /\ handles' = IF m_connection # NullHandle
                  THEN [handles EXCEPT ![m_connection][field] = TRUE]
                  ELSE handles
    /\ Put(st)
    /\ UNCHANGED <<m_connection, m_isConnected, m_isConnecting, attempts, vendor,
                   devices, nextHandle>>
    /\ UNCHANGED appVars
    /\ UNCHANGED histVars

\* emit logMessage("Setting up callbacks...");
\* m_setSerialInCallback(m_connection, serialInCallbackHandler)
WorkerSetSerial(w) ==
    WorkerSet(w, "setSerial", WorkerEmit("Setting up callbacks..."),
              "setSerialInCallback", "serialCb", "setDevice")

\* m_setDeviceStateCallback(m_connection, deviceStateCallbackHandler)
WorkerSetDevice(w) ==
    WorkerSet(w, "setDevice", Here, "setDeviceStateCallback", "deviceCb", "postOk")

WorkerPost(w, from, st, ok) ==
    /\ ProcessAlive
    /\ workers[w].pc = from
    /\ Goto(w, "done")
    /\ InvokeCompletion(ok, st, "worker")
    /\ UNCHANGED <<m_connection, m_isConnected, attempts, vendor, devices, ub>>
    /\ UNCHANGED appVars
    /\ UNCHANGED libVars
    /\ UNCHANGED histVars

\* emit logMessage("Connection setup complete"); doConnect() returns;
\* QMetaObject::invokeMethod(this, <success lambda>); the thread ends.
WorkerPostOk(w) == WorkerPost(w, "postOk", WorkerEmit("Connection setup complete"), TRUE)

\* catch: QMetaObject::invokeMethod(this, <error lambda>); the thread ends.
WorkerPostErr(w) == WorkerPost(w, "postErr", Here, FALSE)

\* ---- main thread: public methods of POSCommunication --------------------
MainReady == appPhase = "running" /\ ~crashed

\* POSCommunication::disconnect()
\* A disconnect() that leaves m_isConnected as the device callback set it.
ConnectedAsReported == m_isConnected

\* m_isConnected = false in disconnect().
ConnectedAfterDisconnect == FALSE

\* disconnect() without its test of the handle.
HasSessionAlways(h) == TRUE

\* if (m_connection != nullptr): the test of disconnect().
HasSession(h) == h # NullHandle

disconnect(l) ==
    IF HasSession(m_connection) THEN
        LET s1 == EmitAll(Here, <<StatusSig(FALSE), LogSig("Disconnected")>>, "main",
                          FALSE, m_isConnecting)
        IN /\ last' = Logged([Native(l, "deleteCommunication", m_connection)
                                EXCEPT !.wrote = {"m_connection", "m_isConnected"}], s1)
           /\ ub' = (ub \/ NativeUB("deleteCommunication", m_connection))
           /\ handles' = [handles EXCEPT ![m_connection].deleted = TRUE]
           /\ m_connection' = NullHandle
           /\ m_isConnected' = ConnectedAfterDisconnect
           /\ Put(s1)
    ELSE /\ last' = l
         /\ UNCHANGED <<ub, handles, m_connection, m_isConnected>>
         /\ UNCHANGED uiVars

\* POSCommunication::reconnect()
\* reconnect() that always takes its native branch.
NoSessionNever(h) == FALSE

\* if (m_connection == nullptr): the test of reconnect().
NoSession(h) == h = NullHandle

reconnect(l) ==
    IF NoSession(m_connection) THEN
        /\ connect(Here, l)
        /\ UNCHANGED ub
    ELSE
        LET s1 == Emit(Here, LogSig("Reconnection initiated"), "main",
                       m_isConnected, m_isConnecting)
        IN /\ last' = Logged(Native(l, "reconnect", m_connection), s1)
           /\ ub' = (ub \/ NativeUB("reconnect", m_connection))
           /\ Put(s1)
           /\ UNCHANGED connectVars

\* The session-dependent calls getActiveDeviceIndex, sendBasket, sendPayment
\* and getFiscalInfo: the null-handle guard, then the native call, whose
\* result (rc, or the BSTR bstr for getFiscalInfo) is returned to the caller.
\* A wrapper without the null-handle guard.
NotConnectedNever(h) == FALSE
NotConnected(h) == h = NullHandle

\* What the wrapper makes of the native result code rc: it is returned as is.
NativeFailed(rc) == FALSE

\* The step l after the call: what is thrown or returned to the caller.
Request(l, op, rc, bstr) ==
    IF NotConnected(m_connection)
    THEN [l EXCEPT !.exc = "Not connected"]
    ELSE [Native(l, op, m_connection)
            EXCEPT !.exc = IF NativeFailed(rc) THEN "native failure" ELSE "none",
                   !.val = rc,
                   !.str = fromWCharArray(bstr)]

\* The outcomes of each call, over what the library may return.
getActiveDeviceIndex(l) == {Request(l, "getActiveDeviceIndex", rc, <<>>) : rc \in ResultCodes}
sendBasket(l) == {Request(l, "sendBasket", rc, <<>>) : rc \in ResultCodes}
sendPayment(l) == {Request(l, "sendPayment", rc, <<>>) : rc \in ResultCodes}
getFiscalInfo(l) == {Request(l, "getFiscalInfo", 0, bstr) : bstr \in Values}

ConnFrame == <<appPhase, libsOk, symsOk, fnValid, m_instance, objects, instance, vendor, devices,
               nextHandle, serialInvoked, serialDelivered, crashed>>

CallConnect ==
    /\ MainReady
    /\ connect(Here, Step("main", "connect"))
    /\ UNCHANGED ConnFrame
    /\ UNCHANGED <<m_connection, m_isConnected, handles, ub>>

CallDisconnect ==
    /\ MainReady
    /\ disconnect(Step("main", "disconnect"))
    /\ UNCHANGED ConnFrame
    /\ UNCHANGED connectVars

CallReconnect ==
    /\ MainReady
    /\ reconnect(Step("main", "reconnect"))
    /\ UNCHANGED ConnFrame
    /\ UNCHANGED <<m_connection, m_isConnected, handles>>

ReqFrame == <<appPhase, libsOk, symsOk, fnValid, m_instance, objects, instance, m_connection,
              m_isConnected, m_isConnecting, receivers, workers, attempts, queue,
              vendor, devices, handles, nextHandle, lost,
              serialInvoked, serialDelivered, crashed>>

\* A call made by client code on the main thread; r is its outcome.
Called(r) ==
    /\ MainReady
    /\ last' = r
    /\ ub' = (ub \/ (r.fn # "none" /\ NativeUB(r.fn, r.h)))
    /\ UNCHANGED ReqFrame
    /\ UNCHANGED window

CallGetActiveDeviceIndex ==
    \E r \in getActiveDeviceIndex(Step("main", "getActiveDeviceIndex")) : Called(r)
CallSendBasket == \E r \in sendBasket(Step("main", "sendBasket")) : Called(r)
CallSendPayment == \E r \in sendPayment(Step("main", "sendPayment")) : Called(r)
CallGetFiscalInfo == \E r \in getFiscalInfo(Step("main", "getFiscalInfo")) : Called(r)

\* ---- main thread: MainWindow's button slots -----------------------------
\* try { response = call; log(success line) } catch { log(error line) };
\* r is the outcome of the call.
Clicked(r, okLine, errLine) ==
    /\ MainReady
    /\ window.enabled
    /\ last' = Logged(r, log(Here, IF r.exc = "none" THEN okLine ELSE errLine))
    /\ ub' = (ub \/ (r.fn # "none" /\ NativeUB(r.fn, r.h)))
    /\ UNCHANGED ReqFrame
    /\ UNCHANGED window

onSendBasketClicked ==
    \E r \in sendBasket(Step("main", "onSendBasketClicked")) :
        Clicked(r, "Basket sent successfully", "Error sending basket")
onSendPaymentClicked ==
    \E r \in sendPayment(Step("main", "onSendPaymentClicked")) :
        Clicked(r, "Payment sent successfully", "Error sending payment")
onGetFiscalInfoClicked ==
    \E r \in getFiscalInfo(Step("main", "onGetFiscalInfoClicked")) :
        Clicked(r, "Fiscal Info", "Error getting fiscal info")

\* ---- delivery of signals invoked by name --------------------------------
\* The deliveries of the serial callback's two signals are recorded.
IsSerial(e) == e.k = "serialInReceived" \/ (e.k = "logMessage" /\ e.s = "Serial In")
Delivered(d, e, th) ==
    IF IsSerial(e) THEN Append(d, [k |-> e.k, n |-> e.n, v |-> e.v, th |-> th]) ELSE d

\* The signal e of the POSCommunication object is emitted by thread th.
DeliverSignal(e, st, th) ==
    /\ Put(Emit(st, e, th, m_isConnected, m_isConnecting))
    /\ serialDelivered' = Delivered(serialDelivered, e, th)

\* ---- main thread: the event loop ----------------------------------------
Popped == [Here EXCEPT !.q = Tail(queue)]
Signals == {"logMessage", "serialInReceived", "deviceStateChanged", "connectionStatusChanged"}

\* A queued slot call on MainWindow (a signal emitted off the main thread).
ProcessSlot ==
    /\ MainReady
    /\ queue # <<>>
    /\ Head(queue).to = "window"
    /\ Put(Slot(Popped, Head(queue), m_isConnected, m_isConnecting))
    /\ UNCHANGED <<m_connection, m_isConnected, vendor, devices, last, ub>>
    /\ UNCHANGED appVars
    /\ UNCHANGED connectVars
    /\ UNCHANGED libVars
    /\ UNCHANGED histVars

\* A queued invocation of one of the four signals.
ProcessSignal ==
    /\ MainReady
    /\ queue # <<>>
    /\ Head(queue).to = "pos"
    /\ Head(queue).k \in Signals
    /\ DeliverSignal(Head(queue), Popped, "main")
    /\ UNCHANGED <<m_connection, m_isConnected, vendor, devices, last,
                   serialInvoked, ub>>
    /\ UNCHANGED appVars
    /\ UNCHANGED connectVars
    /\ UNCHANGED libVars

\* The queued completion lambda of a connect worker.
ProcessCompletion ==
    /\ MainReady
    /\ queue # <<>>
    /\ Head(queue).to = "pos"
    /\ Head(queue).k \in {"completionOk", "completionErr"}
    /\ completion(Head(queue).b, Popped, "main")
    /\ UNCHANGED <<m_connection, m_isConnected, workers, attempts, vendor,
                   devices, ub>>
    /\ UNCHANGED appVars
    /\ UNCHANGED libVars
    /\ UNCHANGED histVars

\* ---- vendor thread: the two static callback handlers --------------------
\* The library calls a handler only while it is registered on a session that
\* has not been deleted, and one callback at a time.

\* The serial handler invoking its signals with Qt::DirectConnection.
SerialInDirect == "direct"

\* The connection type each handler passes to QMetaObject::invokeMethod.
SerialInConnection == "queued"
DeviceStateConnection == "queued"

VendorFrame == <<appPhase, libsOk, symsOk, fnValid, m_instance, objects, instance, m_connection,
                 handles, nextHandle, ub, crashed>>

\* What QMetaObject::invokeMethod finds by name on a POSCommunication: the
\* methods moc registers, which are the four signals. The class declares no
\* slot and no Q_INVOKABLE method; connect(), disconnect() and reconnect()
\* are plain public members.
MetaMethods == Signals

RECURSIVE InvokeAll(_, _, _, _, _)
\* QMetaObject::invokeMethod(m_instance, "<member>", type, args) by thread
\* th for each member of es in turn, with m_isConnected = isConn; x = [st, d]
\* threads the window/queue context and the delivery history through. For a
\* name that is no meta-method the call posts nothing and returns false,
\* which the handlers ignore.
InvokeAll(x, es, type, th, isConn) ==
    IF es = <<>> THEN x
    ELSE LET e == Head(es)
             y == IF e.k \notin MetaMethods THEN x
                  ELSE IF type = "queued"
                  THEN [x EXCEPT !.st.q = Append(@, e)]
                  ELSE [st |-> Emit(x.st, e, th, isConn, m_isConnecting),
                        d |-> Delivered(x.d, e, th)]
         IN InvokeAll(y, Tail(es), type, th, isConn)

HereAll == [st |-> Here, d |-> serialDelivered]
PutAll(x) == /\ Put(x.st)
             /\ serialDelivered' = x.d

\* serialInCallbackHandler(typeCode, value): if (m_instance), valueStr =
\* QString::fromWCharArray(value), then the two invokeMethod calls
\* ("serialInReceived" and "logMessage", both Qt::QueuedConnection).
serialInCallbackHandler ==
    /\ ProcessAlive
    /\ vendor.pc = "idle"
    /\ Len(serialInvoked) < MaxSerial
    /\ \E h \in DOMAIN handles : Live(h) /\ handles[h].serialCb
    /\ \E n \in TypeCodes, v \in Values :
        /\ \A i \in DOMAIN serialInvoked : serialInvoked[i].n < n
        /\ serialInvoked' = Append(serialInvoked, [n |-> n, v |-> v])
        /\ IF m_instance # NullInstance
           THEN PutAll(InvokeAll(HereAll,
                    <<Ev("serialInReceived", "pos", FALSE, n, "", fromWCharArray(v)),
                      Ev("logMessage", "pos", FALSE, n, "Serial In", fromWCharArray(v))>>,
                    SerialInConnection, "vendor", m_isConnected))
           ELSE UNCHANGED <<serialDelivered, window, queue, lost, receivers>>
    /\ UNCHANGED VendorFrame
    /\ UNCHANGED <<m_isConnected, vendor, devices, last>>
    /\ UNCHANGED connectVars

\* deviceStateCallbackHandler(isConnected, deviceId) up to the auto-reconnect
\* test: if (m_instance), m_instance->m_isConnected = isConnected, then the
\* three invokeMethod calls ("deviceStateChanged", "connectionStatusChanged",
\* "logMessage", all Qt::QueuedConnection).
\* A callback that leaves m_isConnected as it was.
DeviceStateNotStored(isConnected, old) == old

\* m_instance->m_isConnected = isConnected: the value the member has after
\* the callback's store, old being its value before.
DeviceStateStored(isConnected, old) == isConnected

DeviceStateEnter ==
    /\ ProcessAlive
    /\ vendor.pc = "idle"
    /\ devices < MaxDevice
    /\ \E h \in DOMAIN handles : Live(h) /\ handles[h].deviceCb
    /\ devices' = devices + 1
    /\ \E b \in BOOLEAN, id \in DeviceIds :
        IF m_instance # NullInstance
        THEN /\ vendor' = [pc |-> "reconnect", b |-> b, n |-> 0, v |-> fromWCharArray(id)]
             /\ m_isConnected' = DeviceStateStored(b, m_isConnected)
             /\ last' = [Step("vendor", "deviceStateCallbackHandler")
                           EXCEPT !.wrote = {"m_isConnected"}]
             /\ PutAll(InvokeAll(HereAll,
                    <<Ev("deviceStateChanged", "pos", b, 0, "", fromWCharArray(id)),
                      StatusSig(b),
                      Ev("logMessage", "pos", b, 0, "Device State", fromWCharArray(id))>>,
                    DeviceStateConnection, "vendor", b))
        ELSE UNCHANGED <<vendor, m_isConnected, last, serialDelivered,
                         window, queue, lost, receivers>>
    /\ UNCHANGED VendorFrame
    /\ UNCHANGED connectVars
    /\ UNCHANGED serialInvoked

\* if (!isConnected && !m_instance->m_isConnecting)
AutoReconnect(isConnected, isConnecting) == ~isConnected /\ ~isConnecting

\* The rest of deviceStateCallbackHandler: the auto-reconnect test, reading
\* m_isConnecting, and under it the invocations by name of "logMessage"
\* ("Connection lost...") and of "connect" (both Qt::QueuedConnection).
DeviceStateReconnect ==
    /\ ProcessAlive
    /\ vendor.pc = "reconnect"
    /\ vendor' = VendorIdle
    /\ IF AutoReconnect(vendor.b, m_isConnecting)
       THEN PutAll(InvokeAll(HereAll,
                <<LogSig("Connection lost. Attempting to reconnect..."),
                  Ev("connect", "pos", FALSE, 0, "", <<>>)>>,
                DeviceStateConnection, "vendor", m_isConnected))
       ELSE /\ UNCHANGED serialDelivered
            /\ UNCHANGED uiVars
    /\ UNCHANGED VendorFrame
    /\ UNCHANGED connectVars
    /\ UNCHANGED <<m_isConnected, devices, serialInvoked, last>>

\* ---- specification ------------------------------------------------------
Worker(w) ==
    \/ WorkerCreate(w)
    \/ WorkerCheck(w)
    \/ WorkerSetSerial(w)
    \/ WorkerSetDevice(w)
    \/ WorkerPostOk(w)
    \/ WorkerPostErr(w)

\* What runs whoever the client of the class is: MainWindow's constructor,
\* the event loop, the connect workers and the device-state callback.
Core ==
    \/ MainWindowCtor
    \/ ProcessSlot
    \/ ProcessSignal
    \/ ProcessCompletion
    \/ \E w \in 1..MaxAttempts : Worker(w)
    \/ DeviceStateEnter
    \/ DeviceStateReconnect

Buttons ==
    \/ onSendBasketClicked
    \/ onSendPaymentClicked
    \/ onGetFiscalInfoClicked

\* The class driven by any client on the main thread: every public method
\* may be called between two events, besides the demo window's buttons.
Next ==
    \/ Core
    \/ Buttons
    \/ CallConnect
    \/ CallDisconnect
    \/ CallReconnect
    \/ CallGetActiveDeviceIndex
    \/ CallSendBasket
    \/ CallSendPayment
    \/ CallGetFiscalInfo

Spec == Init /\ [][Next]_vars

\* The demo application as shipped: the class is driven by MainWindow only,
\* and the vendor thread also delivers serial input.
NextApp ==
    \/ Core
    \/ Buttons
    \/ serialInCallbackHandler

SpecApp == Init /\ [][NextApp]_vars

\* app.exec() returns (the window was closed), mainWindow is destroyed and
\* main returns. ~MainWindow() has an empty body and nothing deletes the
\* object behind POSCommunication::m_instance, so ~POSCommunication() does not
\* run: no disconnect(), no native call; the slots go with the window.
MainReturns ==
    /\ MainReady
    /\ appPhase' = "exited"
    /\ receivers' = FALSE
    /\ last' = Step("main", "main")
    /\ UNCHANGED <<libsOk, symsOk, fnValid, m_instance, objects, instance, m_connection, m_isConnected,
                   m_isConnecting, workers, attempts, queue, vendor, devices,
                   handles, nextHandle, window, lost, serialInvoked,
                   serialDelivered, ub, crashed>>

\* The demo application from start to exit.
NextExit ==
    \/ NextApp
    \/ MainReturns

SpecExit == Init /\ [][NextExit]_vars

\* QApplication::exec() keeps the main thread's event loop running: a posted
\* event at the head of the queue is eventually processed.
EventLoop ==
    /\ WF_vars(ProcessSlot)
    /\ WF_vars(ProcessSignal)
    /\ WF_vars(ProcessCompletion)

SpecAppFair == SpecApp /\ EventLoop

\* ---- properties ---------------------------------------------------------
\* The steps of the four session-dependent calls, whether made by client code
\* or by one of MainWindow's buttons.
Requests ==
    \/ CallGetActiveDeviceIndex
    \/ CallSendBasket
    \/ CallSendPayment
    \/ CallGetFiscalInfo
    \/ Buttons

\* C1: each of getActiveDeviceIndex, sendBasket, sendPayment and
\* getFiscalInfo, called while the session handle is null, throws the
\* "Not connected" runtime error, calls no native entry point and leaves
\* m_connection, m_isConnected and m_isConnecting unchanged.
C1_NullHandleFailsFast ==
    [][(Requests /\ m_connection = NullHandle) =>
          /\ last'.exc = "Not connected"
          /\ last'.fn = "none"
          /\ ub' = ub
          /\ UNCHANGED <<m_connection, m_isConnected, m_isConnecting>>]_vars

\* A request was made with no session and was refused.
C1_Witness ==
    /\ last.op \in {"getActiveDeviceIndex", "sendBasket", "sendPayment", "getFiscalInfo"}
    /\ last.exc = "Not connected"
    /\ m_connection = NullHandle

\* C2: m_connection, m_isConnected and m_isConnecting are written only by
\* steps of the main thread; no step of the connect worker and no step of
\* the vendor library's callback thread writes any of the three.
C2_OnlyMainWrites == last.wrote # {} => last.th = "main"

\* C3: every device-state callback that reports "disconnected" leads to a
\* new connection attempt, whatever the handle and the flags are: when the
\* handler returns, a worker has been started or a connect() request is
\* pending on the main thread.
C3_ReconnectStartsAttempt ==
    [][(vendor.pc = "reconnect" /\ ~vendor.b /\ vendor'.pc = "idle") =>
          \/ attempts' = attempts + 1
          \/ \E i \in DOMAIN queue' : queue'[i].k = "connect"]_vars

\* The connect workers that have started and whose completion lambda has not
\* run yet: still running, or done with the completion waiting in the queue.
Running == {w \in 1..MaxAttempts : workers[w].pc \notin {"unborn", "done"}}
Undelivered == {i \in DOMAIN queue : queue[i].k \in {"completionOk", "completionErr"}}
InFlight == Cardinality(Running) + Cardinality(Undelivered)

\* C4: at most one connection attempt is in flight at any time (a worker is
\* started only when no earlier worker is running or has its completion
\* undelivered), and m_isConnecting is true whenever one is.
C4_OneAttemptInFlight ==
    /\ InFlight <= 1
    /\ InFlight = 1 => m_isConnecting

\* connect() was called during an attempt and refused to start a second one.
C4_Witness ==
    /\ InFlight = 1
    /\ last.op = "connect"
    /\ last.line = "Connection attempt already in progress..."

\* C5: a native sendBasket, sendPayment or getFiscalInfo call is issued on a
\* handle only after setSerialInCallback and setDeviceStateCallback were both
\* called on that handle.
C5_RequestsAfterCallbacks ==
    (last.fn \in {"sendBasket", "sendPayment", "getFiscalInfo"} /\ last.h # NullHandle)
        => handles[last.h].serialCb /\ handles[last.h].deviceCb

\* C6: connect() is asynchronous: the thread that calls it makes no native
\* call in it; createCommunication, setSerialInCallback and
\* setDeviceStateCallback are called by the worker only; the completion (log
\* line, m_isConnecting reset, connectionStatusChanged) runs on the main
\* thread.
C6_ConnectAsynchronous ==
    /\ last.op \in {"connect", "MainWindow"} => last.fn = "none"
    /\ last.fn \in {"createCommunication", "setSerialInCallback", "setDeviceStateCallback"}
          => last.th = "worker"
    /\ last.op \in {"completionOk", "completionErr"} =>
          /\ last.th = "main"
          /\ last.line \in {"Connected successfully", "Error connecting"}
          /\ "m_isConnecting" \in last.wrote
          /\ last.csc = <<last.op = "completionOk">>

\* A worker created the session and registered both callbacks, and its
\* completion has run.
C6_Witness ==
    /\ last.op = "completionOk"
    /\ last.th = "main"
    /\ m_connection # NullHandle
    /\ handles[m_connection].serialCb
    /\ handles[m_connection].deviceCb
    /\ ~m_isConnecting

\* What the serial callbacks invoked so far have to deliver: per callback, in
\* order of invocation, one serialInReceived(typeCode, value) and one log
\* event, each emitted on the main thread.
SerialExpected ==
    [i \in 1..(2 * Len(serialInvoked)) |->
        LET c == serialInvoked[(i + 1) \div 2]
        IN [k |-> IF i % 2 = 1 THEN "serialInReceived" ELSE "logMessage",
            n |-> c.n, v |-> c.v, th |-> "main"]]

\* C7: every invocation of the serial-input callback has exactly one
\* serialInReceived(typeCode, value) event and one log event delivered, on
\* the main thread and never on the vendor thread, and the events of
\* successive callbacks are delivered in the order of the callbacks.
C7_SerialDeliveredInOrder ==
    /\ [](/\ Len(serialDelivered) <= Len(SerialExpected)
          /\ \A i \in DOMAIN serialDelivered : serialDelivered[i] = SerialExpected[i])
    /\ \A k \in 1..MaxSerial :
          (Len(serialInvoked) >= k) ~> (Len(serialDelivered) >= 2 * k)

\* Two serial callbacks were invoked and all four of their events delivered.
C7_Witness ==
    /\ Len(serialInvoked) = 2
    /\ Len(serialDelivered) = 4
    /\ serialDelivered = SerialExpected

\* C8: when a required library cannot be loaded or one of the nine symbols
\* cannot be resolved, the construction of the instance throws to
\* MainWindow's try/catch, and no connection attempt is started.
C8_LoadFailureThrows ==
    (appPhase # "init" /\ ~(libsOk /\ symsOk)) =>
        /\ appPhase = "failed"
        /\ attempts = 0

\* C9: when the native sendBasket or sendPayment call returns a non-zero
\* code, the wrapper throws, so the button's slot logs its "Error sending"
\* line and not its "sent successfully" line.
C9_NativeFailureThrows ==
    (/\ last.op \in {"onSendBasketClicked", "onSendPaymentClicked"}
     /\ last.fn \in {"sendBasket", "sendPayment"}
     /\ last.val # 0) =>
        /\ last.exc # "none"
        /\ last.line \in {"Error sending basket", "Error sending payment"}

\* The completion lambda of the error outcome, as posted by the worker.
ErrorCompletion == Ev("completionErr", "pos", FALSE, 0, "", <<>>)

\* C10: when createCommunication returns null, the attempt ends in the error
\* outcome: the worker goes on to no callback registration and posts the
\* error completion, the handle stays null meanwhile, and the main thread
\* then logs "Error connecting", resets m_isConnecting, emits
\* connectionStatusChanged(false) and leaves m_isConnected unchanged.
C10_NullSessionEndsInError ==
    [][/\ \A w \in 1..MaxAttempts :
            /\ (workers'[w].ret = NullHandle /\ workers'[w].pc \in {"check", "postErr"})
                  => m_connection' = NullHandle
            /\ (workers[w] = [pc |-> "check", ret |-> NullHandle] /\ workers'[w] # workers[w])
                  => (workers'[w].pc = "postErr" /\ UNCHANGED <<handles, last>>)
            /\ (workers[w] = [pc |-> "postErr", ret |-> NullHandle] /\ workers'[w] # workers[w])
                  => (/\ workers'[w].pc = "done"
                      /\ queue' = Append(queue, ErrorCompletion)
                      /\ UNCHANGED <<handles, last>>)
       /\ (queue # <<>> /\ Head(queue) = ErrorCompletion /\ queue' = Tail(queue))
            => (/\ last'.th = "main"
                /\ last'.line = "Error connecting"
                /\ last'.csc = <<FALSE>>
                /\ ~m_isConnecting'
                /\ UNCHANGED <<m_connection, m_isConnected>>)]_vars

\* createCommunication returned null and the error completion has run on the
\* main thread.
C10_Witness ==
    /\ last.op = "completionErr"
    /\ last.line = "Error connecting"
    /\ m_connection = NullHandle
    /\ \E w \in 1..MaxAttempts : workers[w] = [pc |-> "done", ret |-> NullHandle]

\* The log lines by which the constructor of POSCommunication reports that a
\* library could not be loaded or a symbol could not be resolved.
LoadFailureLines ==
    {"Failed to load required DLL", "Failed to load required libraries",
     "Failed to resolve one or more functions from DLL"}

\* C11: every failure is surfaced in the window's log panel: no line
\* reporting a load or symbol failure is emitted while no receiver is
\* connected, a failed connection attempt logs "Error connecting", and a
\* session-dependent call refused for want of a session logs the button's
\* error line.
C11_FailuresSurfaced ==
    /\ \A e \in lost : e.s \notin LoadFailureLines
    /\ last.op = "completionErr" => last.line = "Error connecting"
    /\ (/\ last.op \in {"onSendBasketClicked", "onSendPaymentClicked", "onGetFiscalInfoClicked"}
        /\ last.exc # "none") =>
          last.line \in {"Error sending basket", "Error sending payment",
                         "Error getting fiscal info"}

\* C12: a failed connection attempt is not retried automatically. Processing
\* the failure completion leaves the handle null and m_isConnecting false and
\* starts no worker; and from a state with the handle null and no attempt in
\* progress, every step other than an explicit connect() or reconnect() keeps
\* the handle null and m_isConnecting false and starts no worker.
C12_NoAutomaticRetry ==
    [][/\ (ProcessCompletion /\ ~Head(queue).b) =>
            /\ m_connection' = NullHandle
            /\ ~m_isConnecting'
            /\ attempts' = attempts
       /\ (/\ appPhase = "running"
           /\ m_connection = NullHandle
           /\ ~m_isConnecting
           /\ ~(CallConnect \/ CallReconnect)) =>
            /\ m_connection' = NullHandle
            /\ ~m_isConnecting'
            /\ attempts' = attempts]_vars

\* An attempt failed, its completion was processed, the main thread went on
\* (a request was refused for want of a session) and no second worker exists.
C12_Witness ==
    /\ \E w \in 1..MaxAttempts : workers[w] = [pc |-> "done", ret |-> NullHandle]
    /\ attempts = 1
    /\ queue = <<>>
    /\ m_connection = NullHandle
    /\ ~m_isConnecting
    /\ last.op = "sendBasket"
    /\ last.exc = "Not connected"

\* C13: the session is torn down on shutdown: once main has returned,
\* deleteCommunication has been called on every session handle that was
\* created.
C13_SessionTornDown ==
    appPhase = "exited" =>
        \A h \in DOMAIN handles : handles[h].created => handles[h].deleted

\* The connect workers whose createCommunication call has not returned.
InCreate == {w \in 1..MaxAttempts : workers[w].pc = "create"}

\* C14: no timeout or cancellation exists for a connection attempt: for as
\* long as the createCommunication call of an attempt has not returned,
\* m_isConnecting stays true, the handle stays null, no worker is started,
\* and every connect() (also the one reconnect() makes with a null handle) is
\* rejected with "Connection attempt already in progress..." and makes no
\* native call.
C14_NoTimeoutOrCancel ==
    [][(\E w \in InCreate : workers'[w].pc = "create") =>
          /\ m_isConnecting /\ m_isConnecting'
          /\ m_connection = NullHandle /\ m_connection' = NullHandle
          /\ attempts' = attempts
          /\ (CallConnect \/ CallReconnect) =>
                /\ last'.line = "Connection attempt already in progress..."
                /\ last'.fn = "none"
                /\ last'.wrote = {}]_vars

\* While the worker is still in createCommunication, reconnect() was called
\* and rejected.
C14_Witness ==
    /\ InCreate # {}
    /\ attempts = 1
    /\ last.op = "reconnect"
    /\ last.line = "Connection attempt already in progress..."

\* ---- The singleton accessor and the destructor ---------------------------
\* A caller of the class that owns no window: it asks for the instance, under
\* any company name, and deletes the object it was given.

\* POSCommunication::getInstance(companyName).  A call that constructs runs
\* the constructor: the members start null and false, loadLibraries() and
\* initializeFunctions() emit their log lines.
CallGetInstance(name) ==
    LET g == getInstance(name)
        l == [Step("main", "getInstance") EXCEPT !.val = g.ptr, !.arg = name]
    IN /\ appPhase = "init"
       /\ ~crashed
       /\ NoInstance(m_instance) => Len(objects) < MaxObjects
       /\ m_instance' = g.ptr
       /\ objects' = g.objs
       /\ IF g.objs # objects
          THEN LET s1 == EmitAll(Here, ConstructorSignals, "main", FALSE, FALSE)
               IN /\ fnValid' = (libsOk /\ symsOk)
                  /\ m_connection' = NullHandle
                  /\ m_isConnected' = FALSE
                  /\ m_isConnecting' = FALSE
                  /\ Put(s1)
                  /\ last' = Logged(l, s1)
          ELSE /\ last' = l
               /\ UNCHANGED <<fnValid, m_connection, m_isConnected, m_isConnecting>>
               /\ UNCHANGED uiVars
       /\ UNCHANGED <<appPhase, libsOk, symsOk, instance, workers, attempts, vendor,
                      devices, ub, crashed>>
       /\ UNCHANGED libVars
       /\ UNCHANGED histVars

\* ~POSCommunication(): disconnect(), unload the libraries, and
\* if (m_instance == this) m_instance = nullptr.
Destroy ==
    /\ appPhase = "init"
    /\ ~crashed
    /\ m_instance # NullInstance
    /\ disconnect(Step("main", "~POSCommunication"))
    /\ fnValid' = FALSE
    /\ objects' = [objects EXCEPT ![m_instance].destroyed = TRUE]
    /\ m_instance' = NullInstance
    /\ UNCHANGED <<appPhase, libsOk, symsOk, instance, m_isConnecting, workers,
                   attempts, vendor, devices, nextHandle, crashed>>
    /\ UNCHANGED histVars

NextSingleton == (\E name \in CompanyNames : CallGetInstance(name)) \/ Destroy

SpecSingleton == Init /\ [][NextSingleton]_vars

LiveObjects == {i \in 1..Len(objects) : ~objects[i].destroyed}

\* C15: the first getInstance call constructs an object under the company
\* name it was given; while that object exists every later call, whatever
\* name it passes, returns that same object and constructs nothing; deleting
\* the object sets the singleton pointer back to null.
C15_SingletonAccessor ==
    [][/\ \A name \in CompanyNames : CallGetInstance(name) =>
            /\ last'.val = m_instance'
            /\ IF m_instance = NullInstance
               THEN /\ Len(objects') = Len(objects) + 1
                    /\ SubSeq(objects', 1, Len(objects)) = objects
                    /\ m_instance' = Len(objects')
                    /\ objects'[m_instance'].name = name
               ELSE /\ objects' = objects
                    /\ m_instance' = m_instance
       /\ Destroy => m_instance' = NullInstance
       /\ LiveObjects' = IF m_instance' = NullInstance THEN {} ELSE {m_instance'}]_vars

C15_Witness ==
    /\ Len(objects) = 2
    /\ objects[1].destroyed
    /\ m_instance = 2
    /\ last.op = "getInstance"
    /\ last.val = 2
    /\ last.arg # objects[2].name

\* The connect worker is a running thread and the native calls it makes
\* return: a worker that can take its next step eventually takes it.
WorkersRun == \A w \in 1..MaxAttempts : WF_vars(Worker(w))

\* The class driven by any client, with the event loop and the workers running.
SpecFair == Spec /\ EventLoop /\ WorkersRun

Completions == {"completionOk", "completionErr"}

C17_StatusArgumentIsConnected ==
    [][/\ ( /\ receivers'
            /\ (MainWindowCtor \/ ProcessCompletion) )
          => \A i \in DOMAIN last'.csc : last'.csc[i] = m_isConnected'
       /\ (ProcessSignal /\ receivers /\ Head(queue).k = "connectionStatusChanged")
          => Head(queue).b = m_isConnected]_vars

ConsoleFrame == <<appPhase, fnValid, libsOk, symsOk, m_instance, m_connection,
                  m_isConnected, m_isConnecting, receivers, workers, attempts,
                  queue, vendor, devices, window, lost, serialInvoked,
                  serialDelivered>>

\* An object whose constructor ran: comm is _Communication; an object whose
\* constructor threw was released by new and is recorded as destroyed.
ConsoleObject(name, comm, built) ==
    [name |-> name, destroyed |-> ~built, comm |-> comm]

\* LoadNativeLibrary() that finds the DLL and every entry point, whatever
\* the environment.
LoadNativeLibraryNeverFails == "none"

\* LoadNativeLibrary(libName): the exception it throws, "none" if it returns.
LoadNativeLibrary ==
    IF ~libsOk THEN "Unable to load DLL"
    ELSE IF ~symsOk THEN "Failed to load required functions from DLL"
    ELSE "none"

\* GetInstance(companyName): if (!instance) instance = new
\* POSCommunication(companyName); return instance.  The constructor calls
\* LoadNativeLibrary("IntegrationHubCpp.dll"), then stores what
\* createCommunication(companyName) returns, with no test of it.  When the
\* constructor throws, the assignment to instance is not reached.
GetInstance(name) ==
    LET l == [Step("main", "GetInstance") EXCEPT !.arg = name]
    IN /\ ~crashed
       /\ instance = NullInstance => Len(objects) < MaxObjects
       /\ IF instance # NullInstance
          THEN /\ last' = [l EXCEPT !.val = instance]
               /\ UNCHANGED <<instance, objects, handles, nextHandle>>
          ELSE IF LoadNativeLibrary # "none"
          THEN /\ last' = [l EXCEPT !.exc = LoadNativeLibrary]
               /\ objects' = Append(objects, ConsoleObject(name, NullHandle, FALSE))
               /\ UNCHANGED <<instance, handles, nextHandle>>
          ELSE \E r \in {NullHandle} \cup {h \in {nextHandle + 1} : h <= MaxAttempts} :
               /\ objects' = Append(objects, ConsoleObject(name, r, TRUE))
               /\ instance' = Len(objects) + 1
               /\ nextHandle' = IF r = NullHandle THEN nextHandle ELSE r
               /\ handles' = IF r = NullHandle THEN handles
                             ELSE [handles EXCEPT ![r].created = TRUE]
               /\ last' = [l EXCEPT !.fn = "createCommunication", !.h = r,
                                    !.live = TRUE, !.val = Len(objects) + 1]
       /\ UNCHANGED <<ub, crashed>>
       /\ UNCHANGED ConsoleFrame

\* _Communication of the singleton object.
Communication == objects[instance].comm

\* A member function that passes _Communication straight to native function
\* fn and returns what it returns; post is the library's record of the
\* session after the call.  On a handle that is not a live session the call
\* is undefined: it returns anything or the process dies in it.
ConsoleCall(op, fn, rcs, bstrs, post) ==
    /\ ~crashed
    /\ instance # NullInstance
    /\ \E rc \in rcs, bstr \in bstrs :
        last' = [Step("main", op) EXCEPT !.fn = fn, !.h = Communication,
                                       !.live = Live(Communication),
                                       !.val = rc, !.str = bstr]
    /\ ub' = (ub \/ ~Live(Communication))
    /\ crashed' \in IF Live(Communication) THEN {FALSE} ELSE BOOLEAN
    /\ handles' = IF Communication # NullHandle THEN post ELSE handles
    /\ UNCHANGED <<instance, objects, nextHandle>>
    /\ UNCHANGED ConsoleFrame

GetActiveDeviceIndexFunc ==
    ConsoleCall("GetActiveDeviceIndexFunc", "getActiveDeviceIndex", ResultCodes, {<<>>}, handles)

SendBasketFunc == ConsoleCall("SendBasketFunc", "sendBasket", ResultCodes, {<<>>}, handles)

SendPaymentFunc == ConsoleCall("SendPaymentFunc", "sendPayment", ResultCodes, {<<>>}, handles)

GetFiscalInfoFunc == ConsoleCall("GetFiscalInfoFunc", "getFiscalInfo", {0}, Values, handles)

\* _serialInCallback = callback; setSerialInCallback(_Communication, ...)
SetSerialInCallbackFunc ==
    ConsoleCall("SetSerialInCallbackFunc", "setSerialInCallback", {0}, {<<>>},
                [handles EXCEPT ![Communication].serialCb = TRUE])

ReconnectFunc == ConsoleCall("ReconnectFunc", "reconnect", {0}, {<<>>}, handles)

\* deleteCommunication(_Communication): _Communication keeps its value.
DeleteCommunicationFunc ==
    ConsoleCall("DeleteCommunicationFunc", "deleteCommunication", {0}, {<<>>},
                [handles EXCEPT ![Communication].deleted = TRUE])

ConsoleRequests ==
    \/ GetActiveDeviceIndexFunc
    \/ SendBasketFunc
    \/ SendPaymentFunc
    \/ GetFiscalInfoFunc

\* The console class driven by any single-threaded caller that catches what
\* GetInstance throws.
NextConsole ==
    \/ \E name \in CompanyNames : GetInstance(name)
    \/ ConsoleRequests
    \/ SetSerialInCallbackFunc
    \/ ReconnectFunc
    \/ DeleteCommunicationFunc

SpecConsole == Init /\ [][NextConsole]_vars

\* C19: in the console wrapper, a GetInstance call that has to construct
\* fails with "Unable to load DLL" when the DLL does not load and with
\* "Failed to load required functions from DLL" when an entry point is
\* missing; it then makes no native call, creates no session and leaves the
\* singleton pointer null, so that the next GetInstance call constructs
\* again; when both succeed it calls createCommunication and sets the pointer.
C19_ConsoleLoadFailureThrows ==
    [][\A name \in CompanyNames : (GetInstance(name) /\ instance = NullInstance) =>
          /\ Len(objects') = Len(objects) + 1
          /\ objects'[Len(objects')].name = name
          /\ IF libsOk /\ symsOk
             THEN /\ last'.exc = "none"
                  /\ last'.fn = "createCommunication"
                  /\ instance' = Len(objects')
             ELSE /\ last'.exc = IF ~libsOk THEN "Unable to load DLL"
                                 ELSE "Failed to load required functions from DLL"
                  /\ last'.fn = "none"
                  /\ handles' = handles /\ nextHandle' = nextHandle
                  /\ instance' = NullInstance
                  /\ objects'[Len(objects')].destroyed]_vars

\* A second GetInstance call constructed again, and failed again, after the
\* first one failed on a missing entry point.
C19_Witness ==
    /\ libsOk /\ ~symsOk
    /\ Len(objects) = 2
    /\ instance = NullInstance
    /\ last.op = "GetInstance"
    /\ last.exc = "Failed to load required functions from DLL"
    /\ nextHandle = 0

\* C20: in the console wrapper, GetActiveDeviceIndexFunc, SendBasketFunc,
\* SendPaymentFunc and GetFiscalInfoFunc called on an object whose
\* createCommunication returned null fail fast and make no native call.
C20_ConsoleNullHandleFailsFast ==
    [][(ConsoleRequests /\ Communication = NullHandle) =>
          /\ last'.exc # "none"
          /\ last'.fn = "none"
          /\ ub' = ub]_vars

\* C21: connect() called while the session handle is non-null only logs
\* "Already connected": no worker starts, no native entry point is invoked,
\* no connectionStatusChanged is emitted, and the handle, isConnected,
\* isConnecting and the window's buttons stay as they were, whether or not a
\* device is reported connected.
C21_ConnectWhenConnectedOnlyLogs ==
    [][(CallConnect /\ m_connection # NullHandle) =>
          /\ last'.line = "Already connected"
          /\ last'.fn = "none"
          /\ last'.csc = <<>>
          /\ last'.wrote = {}
          /\ workers' = workers /\ attempts' = attempts
          /\ m_connection' = m_connection
          /\ m_isConnected' = m_isConnected
          /\ m_isConnecting' = m_isConnecting
          /\ handles' = handles /\ ub' = ub
          /\ window' = window /\ queue' = queue]_vars

\* connect() was called on a session whose device was last reported
\* disconnected.
C21_Witness ==
    /\ last.op = "connect"
    /\ last.line = "Already connected"
    /\ m_connection # NullHandle
    /\ ~m_isConnected
    /\ devices = 1
    /\ attempts = 1

\* The connect() requests posted to the main thread and not yet processed.
ConnectRequests(q) == {i \in DOMAIN q : q[i].k = "connect"}

\* C22: the device-state callback queues a connect() request on the main
\* thread if and only if it reported "disconnected" and isConnecting was
\* false when its test ran.
C22_CallbackQueuesConnect ==
    [][DeviceStateReconnect =>
          ((Cardinality(ConnectRequests(queue')) = Cardinality(ConnectRequests(queue)) + 1)
             <=> (~vendor.b /\ ~m_isConnecting))]_vars

\* C23: disconnect() with a non-null handle calls deleteCommunication once,
\* on that handle, which was a live session; it sets the handle to null and
\* isConnected to false, emits connectionStatusChanged(false) once and leaves
\* isConnecting unchanged.  disconnect() with a null handle changes nothing
\* and calls nothing.  The handle is null after either, so a second
\* disconnect() in a row is the null case, and no session is deleted twice.
C23_DisconnectOnceAndIdempotent ==
    [][CallDisconnect =>
          /\ m_connection' = NullHandle
          /\ m_isConnecting' = m_isConnecting
          /\ IF m_connection # NullHandle
             THEN /\ last'.fn = "deleteCommunication"
                  /\ last'.h = m_connection
                  /\ last'.live
                  /\ ~handles[m_connection].deleted
                  /\ handles' = [handles EXCEPT ![m_connection].deleted = TRUE]
                  /\ ~m_isConnected'
                  /\ last'.csc = <<FALSE>>
                  /\ last'.line = "Disconnected"
                  /\ ub' = ub
             ELSE /\ last'.fn = "none"
                  /\ last'.csc = <<>>
                  /\ last'.line = ""
                  /\ last'.wrote = {}
                  /\ UNCHANGED <<handles, m_isConnected, window, queue, lost, workers,
                                 attempts, ub>>]_vars

\* disconnect() was called a second time in a row, after the first call
\* deleted a session whose device was connected.
C23_Witness ==
    /\ last.op = "disconnect"
    /\ last.fn = "none"
    /\ m_connection = NullHandle
    /\ \E h \in DOMAIN handles : handles[h].deleted
    /\ Running = {}
    /\ attempts = 1

\* C24: reconnect() with a null handle is connect(): the same step that a
\* connect() call would take from that state, apart from the name of the
\* call.  reconnect() with a non-null handle calls the native reconnect once,
\* on that handle and on the calling thread, starts no worker and leaves the
\* handle, isConnected and isConnecting unchanged.
C24_ReconnectIsConnectOrNative ==
    [][CallReconnect =>
          IF m_connection = NullHandle
          THEN /\ last'.fn = "none"
               /\ IF m_isConnecting
                  THEN /\ last'.line = "Connection attempt already in progress..."
                       /\ UNCHANGED <<workers, attempts, m_isConnecting>>
                  ELSE /\ last'.line = "Connecting..."
                       /\ last'.csc = <<FALSE>>
                       /\ m_isConnecting'
                       /\ attempts' = attempts + 1
                       /\ workers'[attempts'].pc = "create"
               /\ UNCHANGED <<m_connection, m_isConnected, handles, ub>>
          ELSE /\ last'.fn = "reconnect"
               /\ last'.h = m_connection
               /\ last'.th = "main"
               /\ last'.line = "Reconnection initiated"
               /\ last'.csc = <<>>
               /\ UNCHANGED <<workers, attempts, m_connection, m_isConnected,
                              m_isConnecting, handles>>]_vars

\* reconnect() was called on an established session.
C24_Witness ==
    /\ last.op = "reconnect"
    /\ last.fn = "reconnect"
    /\ last.h = m_connection
    /\ last.live
    /\ Running = {}

C26_CallbackEventsInOrder ==
    [][/\ (DeviceStateEnter /\ m_instance # NullInstance) =>
             /\ Len(queue') = Len(queue) + 3
             /\ SubSeq(queue', 1, Len(queue)) = queue
             /\ LET e1 == queue'[Len(queue) + 1]
                    e2 == queue'[Len(queue) + 2]
                    e3 == queue'[Len(queue) + 3]
                IN /\ e1.k = "deviceStateChanged" /\ e1.b = vendor'.b /\ e1.v = vendor'.v
                   /\ e2.k = "connectionStatusChanged" /\ e2.b = vendor'.b
                   /\ e3.k = "logMessage" /\ e3.s = "Device State"
       /\ (DeviceStateReconnect /\ ~vendor.b /\ ~m_isConnecting) =>
             /\ Len(queue') = Len(queue) + 2
             /\ SubSeq(queue', 1, Len(queue)) = queue
             /\ queue'[Len(queue) + 1].k = "logMessage"
             /\ queue'[Len(queue) + 1].s = "Connection lost. Attempting to reconnect..."
             /\ queue'[Len(queue) + 2].k = "connect"
       /\ (ProcessSlot \/ ProcessSignal \/ ProcessCompletion) => queue' = Tail(queue)]_vars

\* C27: in every reachable state, isConnected() true implies that the
\* session handle is non-null.  The vendor library invokes the device-state
\* callback only for a session that has the callback registered and is not
\* deleted (the guard of DeviceStateEnter).
C27_ConnectedImpliesSession ==
    m_isConnected => m_connection # NullHandle

\* A device was reported connected on the session the handle names.
C27_Witness ==
    /\ m_isConnected
    /\ Live(m_connection)
    /\ handles[m_connection].deviceCb
    /\ devices = 1

\* The native entry points that take a session handle.
SessionEntryPoints ==
    {"setSerialInCallback", "setDeviceStateCallback", "reconnect", "getActiveDeviceIndex",
     "sendBasket", "sendPayment", "getFiscalInfo", "deleteCommunication"}

\* C28: every native entry point that takes a session handle is invoked only
\* with a handle that createCommunication returned non-null and that has not
\* been deleted, under every interleaving of the main thread's calls with the
\* connect worker.
C28_NativeCallsOnLiveSession ==
    (last.fn \in SessionEntryPoints) => (last.h # NullHandle /\ last.live)

====
